---- MODULE Spec2Model ----
(***************************************************************************)
(* Model of the collaborative session coordinator of KodesCRU:             *)
(* RoomManager (src/room_manager.py) and the websocket endpoint that       *)
(* drives it (src/main.py).                                                *)
(*                                                                         *)
(* Identifiers: room ids and user ids are fresh values (uuid4 in the       *)
(* source) and are modelled by counters; connections are the websocket     *)
(* objects 1..MaxConns.  None (Python's None) is 0, which is neither a     *)
(* room id, a user id nor a connection.                                    *)
(***************************************************************************)
EXTENDS Integers, FiniteSets, Sequences, TLC

\* ---- bounds of the model ----
MaxRooms == 1
MaxConns == 3
MaxAlloc == 3
MaxCapacity == 2
MaxCallRooms == 2

\* ---- program constants ----
MinMaxUsers == 2
MaxMaxUsers == 50
PaletteSize == 12

None == 0
WS == 1..MaxConns
RoomIds == 1..MaxRooms
CallRoomIds == 1..MaxCallRooms
Names == {"Alice", "Bob"}
HostNames == {"Alice"}
\* values of update_code and update_language
Codes == {"x", "y"}
Languages == {"Python", "Go"}

VARIABLES
    rooms,          \* RoomManager.rooms: room id -> Room
    connections,    \* RoomManager.connections: room id -> set of websockets
    user_rooms,     \* RoomManager.user_rooms: user id -> room id
    ws_users,       \* RoomManager.ws_users: websocket -> user id
    color_index,    \* RoomManager.color_index
    next_room_id,   \* next value of generate_room_id
    next_user_id,   \* next value of generate_user_id
    wsState,        \* per connection: position of its websocket_endpoint task
    wsRoomId,       \* per connection: the room_id path parameter of /ws/{room_id}
    bc,             \* the broadcast_to_room call in progress (or the last one)
    last            \* the last operation performed and what it returned

vars == <<rooms, connections, user_rooms, ws_users, color_index,
          next_room_id, next_user_id, wsState, wsRoomId, bc, last>>

\* The RoomManager's fields as one value, so that its methods are operators
\* from a manager value to a manager value.
Manager ==
    [rooms |-> rooms, connections |-> connections, user_rooms |-> user_rooms,
     ws_users |-> ws_users, color_index |-> color_index,
     next_room_id |-> next_room_id, next_user_id |-> next_user_id]

\* dict helpers
DictPop(d, k) == [x \in (DOMAIN d) \ {k} |-> d[x]]
DictSet(d, k, v) == [x \in (DOMAIN d) \cup {k} |-> IF x = k THEN v ELSE d[x]]
\* defaultdict(set).__getitem__: reading a missing key inserts an empty set
DefaultGet(d, k) == IF k \in DOMAIN d THEN d ELSE DictSet(d, k, {})

\* len(room.users)
user_count(room) == Cardinality(DOMAIN room.users)

\* get_user_color: palette entry color_index % 12 (the counter is advanced by the caller below)
get_user_color_unwrapped(m) == m.color_index
get_user_color(m) == m.color_index % PaletteSize

\* RoomManager.get_room: the room or None
HasRoom(m, room_id) == room_id \in DOMAIN m.rooms

\* create_room lines 118-124: the host user
NewHostUnflagged(m, host_name) ==
    [name |-> host_name, color |-> get_user_color(m), is_host |-> FALSE]
NewHost(m, host_name) ==
    [name |-> host_name, color |-> get_user_color(m), is_host |-> TRUE]

\* RoomManager.create_room
create_room(m, host_name, max_users, is_public) ==
    LET room_id == m.next_room_id
        host_id == m.next_user_id
        host == NewHost(m, host_name)
        room == [host_id |-> host_id, language |-> "Python", code |-> "",
                 max_users |-> max_users, is_public |-> is_public,
                 users |-> (host_id :> host)]
    IN [m EXCEPT !.rooms = DictSet(@, room_id, room),
                 !.color_index = @ + 1,
                 !.next_room_id = @ + 1,
                 !.next_user_id = @ + 1]

\* RoomManager.delete_room: the manager afterwards and the returned bool
delete_room_keeping_connections(m, room_id) ==
    IF room_id \in DOMAIN m.rooms
    THEN [m |-> [m EXCEPT
                   !.user_rooms = [u \in (DOMAIN @) \ (DOMAIN m.rooms[room_id].users) |-> @[u]],
                   !.rooms = DictPop(@, room_id)],
          ret |-> TRUE]
    ELSE [m |-> m, ret |-> FALSE]
delete_room(m, room_id) ==
    IF room_id \in DOMAIN m.rooms
    THEN [m |-> [m EXCEPT
                   !.user_rooms = [u \in (DOMAIN @) \ (DOMAIN m.rooms[room_id].users) |-> @[u]],
                   !.connections = DictPop(@, room_id),
                   !.rooms = DictPop(@, room_id)],
          ret |-> TRUE]
    ELSE [m |-> m, ret |-> FALSE]

\* RoomManager.update_code: the manager afterwards and the returned bool
update_code_dropped(m, room_id, code) == [m |-> m, ret |-> HasRoom(m, room_id)]
update_code(m, room_id, code) ==
    IF HasRoom(m, room_id)
    THEN [m |-> [m EXCEPT !.rooms[room_id].code = code], ret |-> TRUE]
    ELSE [m |-> m, ret |-> FALSE]

\* RoomManager.update_language: the manager afterwards and the returned bool
update_language(m, room_id, language) ==
    IF HasRoom(m, room_id)
    THEN [m |-> [m EXCEPT !.rooms[room_id].language = language], ret |-> TRUE]
    ELSE [m |-> m, ret |-> FALSE]

\* join_room line 172: "room is full"
RoomIsFullNever(room) == FALSE
RoomIsFull(room) == user_count(room) >= room.max_users

\* join_room lines 186-190: the host user whose name matches, or None
HostUserId(room, user_name) ==
    LET hs == {u \in DOMAIN room.users :
                 room.users[u].name = user_name /\ room.users[u].is_host}
    IN IF hs = {} THEN None ELSE CHOOSE u \in hs : TRUE

\* join_room lines 169 and 174: "return None", nothing touched
JoinRejectedTouchingConnections(m, room_id) ==
    [m |-> [m EXCEPT !.connections = DefaultGet(@, room_id)], ret |-> None]
JoinRejected(m, room_id) == [m |-> m, ret |-> None]

\* RoomManager.join_room: the manager afterwards and the returned user id (None = absent)
join_room(m, room_id, user_name, websocket) ==
    IF ~HasRoom(m, room_id) THEN JoinRejected(m, room_id)
    ELSE
    LET room == m.rooms[room_id] IN
    IF RoomIsFull(room) THEN JoinRejected(m, room_id)
    ELSE IF websocket \in DOMAIN m.ws_users /\ m.ws_users[websocket] \in DOMAIN room.users
    THEN \* reconnect
         [m |-> [m EXCEPT !.connections =
                     DictSet(DefaultGet(@, room_id), room_id,
                             DefaultGet(@, room_id)[room_id] \cup {websocket})],
          ret |-> m.ws_users[websocket]]
    ELSE IF HostUserId(room, user_name) # None
    THEN \* host is joining
         LET uid == HostUserId(room, user_name) IN
         [m |-> [m EXCEPT !.connections =
                     DictSet(DefaultGet(@, room_id), room_id,
                             DefaultGet(@, room_id)[room_id] \cup {websocket}),
                          !.ws_users = DictSet(@, websocket, uid),
                          !.user_rooms = IF uid \notin DOMAIN @
                                         THEN DictSet(@, uid, room_id) ELSE @],
          ret |-> uid]
    ELSE \* new user
         LET user_id == m.next_user_id
             user == [name |-> user_name, color |-> get_user_color(m), is_host |-> FALSE]
         IN
         [m |-> [m EXCEPT !.rooms[room_id].users = DictSet(@, user_id, user),
                          !.user_rooms = DictSet(@, user_id, room_id),
                          !.connections =
                             DictSet(DefaultGet(@, room_id), room_id,
                                     DefaultGet(@, room_id)[room_id] \cup {websocket}),
                          !.ws_users = DictSet(@, websocket, user_id),
                          !.color_index = @ + 1,
                          !.next_user_id = @ + 1],
          ret |-> user_id]

\* leave_room line 244: "room is empty"
RoomIsEmptyNever(room) == FALSE
RoomIsEmpty(room) == user_count(room) = 0

\* leave_room lines 239 and 241: the back-references of the user and the connection are cleared
ClearBackRefsSkipped(m, user_id, websocket) == m
ClearBackRefs(m, user_id, websocket) ==
    [m EXCEPT !.user_rooms = DictPop(@, user_id),
              !.ws_users = DictPop(@, websocket)]

\* RoomManager.leave_room: the manager afterwards and the returned value:
\* returned = FALSE is None; otherwise the pair (room, user), where user may be None
leave_room(m, websocket) ==
    LET absent == [m |-> m, returned |-> FALSE, room |-> None, user |-> None] IN
    IF websocket \notin DOMAIN m.ws_users THEN absent
    ELSE
    LET user_id == m.ws_users[websocket] IN
    IF user_id \notin DOMAIN m.user_rooms THEN absent
    ELSE
    LET room_id == m.user_rooms[user_id] IN
    IF ~HasRoom(m, room_id) THEN absent
    ELSE
    LET user == IF user_id \in DOMAIN m.rooms[room_id].users THEN user_id ELSE None
        m0 == [m EXCEPT !.rooms[room_id].users = DictPop(@, user_id),
                        !.connections =
                            DictSet(DefaultGet(@, room_id), room_id,
                                    DefaultGet(@, room_id)[room_id] \ {websocket})]
        m1 == ClearBackRefs(m0, user_id, websocket)
        m2 == IF RoomIsEmpty(m1.rooms[room_id]) THEN delete_room(m1, room_id).m ELSE m1
    IN [m |-> m2, returned |-> TRUE, room |-> room_id, user |-> user]

\* RoomManager.get_connections
get_connections(m, room_id) ==
    IF room_id \in DOMAIN m.connections THEN m.connections[room_id] ELSE {}

\* Room.to_dict: the snapshot of a room (users: the user mapping's values)
to_dict(room_id, room) ==
    [id |-> room_id, host_id |-> room.host_id, language |-> room.language,
     code |-> room.code, max_users |-> room.max_users, is_public |-> room.is_public,
     users |-> room.users, user_count |-> user_count(room)]

\* get_public_rooms line 280: "if room.is_public"
IsListedAlways(room) == TRUE
IsListed(room) == room.is_public

\* the list comprehension of get_public_rooms over self.rooms.values(): a dict
\* is iterated in insertion order, which is the order of the room ids here
RECURSIVE SnapshotsOf(_, _)
SnapshotsOf(m, S) ==
    IF S = {} THEN <<>>
    ELSE LET r == CHOOSE x \in S : \A y \in S : x <= y
         IN (IF IsListed(m.rooms[r]) THEN <<to_dict(r, m.rooms[r])>> ELSE <<>>)
            \o SnapshotsOf(m, S \ {r})

\* RoomManager.get_public_rooms
get_public_rooms(m) == SnapshotsOf(m, DOMAIN m.rooms)

\* ---- broadcast_to_room, an async method: it is suspended at each send ----

IdleBroadcast ==
    [status |-> "idle", room |-> None, exclude |-> None, by |-> None,
     start |-> {}, obj |-> {}, attempted |-> {}, target |-> None,
     disconnected |-> {}]

\* bc describes the call in progress (status "sending": suspended at the send
\* to target) or the call that ended in the last step ("returned", or "raised"
\* when the exception left broadcast_to_room); it is idle otherwise.
\* The set object a suspended sweep iterates over is the live set
\* self.connections[room_id] (get_connections returns it, not a copy).
\* obj follows the content of that object: it is the dict's entry while the
\* entry exists, and keeps its last content once delete_room pops the entry.
TrackObj(b, cOld, cNew, leftWs) ==
    IF b.status # "sending" THEN IdleBroadcast
    ELSE LET o == IF b.room \in DOMAIN cNew THEN cNew[b.room]
                  ELSE IF b.room \in DOMAIN cOld THEN cOld[b.room] \ {leftWs}
                  ELSE b.obj
         IN [b EXCEPT !.obj = o]

\* for ws in disconnected: self.leave_room(ws), in each order a set can be iterated
RECURSIVE LeaveAll(_, _)
LeaveAll(m, S) ==
    IF S = {} THEN {m}
    ELSE UNION { LeaveAll(leave_room(m, w).m, S \ {w}) : w \in S }

\* connections the sweep has still to yield; exclude_ws is yielded and skipped
Candidates(b) == b.obj \ (b.attempted \cup {b.exclude})

\* the set was changed since the iterator was created
Mutated(b) == b.obj # b.start

SetManager(m) ==
    /\ rooms' = m.rooms
    /\ connections' = m.connections
    /\ user_rooms' = m.user_rooms
    /\ ws_users' = m.ws_users
    /\ color_index' = m.color_index
    /\ next_room_id' = m.next_room_id
    /\ next_user_id' = m.next_user_id

\* One turn of "for ws in connections" up to the next await (or to the return).
\* A Python set iterator raises RuntimeError when the set's size differs from
\* the size at the iterator's creation; when the set was changed but has its
\* old size, the iterator goes on over the table and may miss elements.
Proceed(b) ==
    \/ /\ Cardinality(b.obj) # Cardinality(b.start)
       /\ bc' = [b EXCEPT !.status = "raised", !.target = None]
       /\ UNCHANGED <<rooms, connections, user_rooms, ws_users, color_index,
                      next_room_id, next_user_id>>
    \/ /\ Cardinality(b.obj) = Cardinality(b.start)
       /\ \E e \in Candidates(b) :
            bc' = [b EXCEPT !.target = e, !.attempted = @ \cup {e}]
       /\ UNCHANGED <<rooms, connections, user_rooms, ws_users, color_index,
                      next_room_id, next_user_id>>
    \/ /\ Cardinality(b.obj) = Cardinality(b.start)
       /\ Candidates(b) = {} \/ Mutated(b)
       /\ \E m \in LeaveAll(Manager, b.disconnected) : SetManager(m)
       /\ bc' = [b EXCEPT !.status = "returned", !.target = None]

\* broadcast_to_room lines 297-300: the cleanup loop drops what leave_room
\* returns and the method ends after it; the connections for whose user a
\* leave notification was sent to the rest of the room: none
LeaveNotified(b) == {}

\* ---- the operations ----

\* last: the operation of the last step; for the RoomManager calls made by a
\* message handler also its arguments and its result (ret: the returned user
\* or None; returned: whether anything but None was returned)
Op(op, ws, room, name, ret, returned) ==
    [op |-> op, ws |-> ws, room |-> room, name |-> name, ret |-> ret,
     returned |-> returned]

Busy(ws) == bc.status = "sending" /\ bc.by = ws

\* POST /rooms/create, max_users validated to [2,50] by CreateRoomRequest
CreateRoom(host_name, max_users, is_public) ==
    /\ next_room_id <= MaxRooms
    /\ next_user_id <= MaxAlloc
    /\ SetManager(create_room(Manager, host_name, max_users, is_public))
    /\ last' = Op("create", None, next_room_id, "", next_user_id, TRUE)
    /\ bc' = TrackObj(bc, connections, connections, None)
    /\ UNCHANGED <<wsState, wsRoomId>>

\* websocket_endpoint is entered for a new connection to /ws/{room_id}
Connect(ws, room_id) ==
    /\ wsState[ws] = "unconnected"
    /\ wsState' = [wsState EXCEPT ![ws] = "open"]
    /\ wsRoomId' = [wsRoomId EXCEPT ![ws] = room_id]
    /\ last' = Op("connect", None, None, "", None, FALSE)
    /\ bc' = TrackObj(bc, connections, connections, None)
    /\ UNCHANGED <<rooms, connections, user_rooms, ws_users, color_index,
                   next_room_id, next_user_id>>

\* a "join" message of ws is handled: join_room(room_id, user_name, websocket)
Join(ws, user_name) ==
    /\ wsState[ws] = "open"
    /\ ~Busy(ws)
    /\ LET r == join_room(Manager, wsRoomId[ws], user_name, ws) IN
         /\ r.m.next_user_id <= MaxAlloc + 1
         /\ SetManager(r.m)
         /\ bc' = TrackObj(bc, connections, r.m.connections, None)
         /\ last' = Op("join", ws, wsRoomId[ws], user_name, r.ret, r.ret # None)
    /\ UNCHANGED <<wsState, wsRoomId>>

\* a "leave" message of ws is handled: leave_room(websocket)
Leave(ws) ==
    /\ wsState[ws] = "open"
    /\ ~Busy(ws)
    /\ LET r == leave_room(Manager, ws) IN
         /\ SetManager(r.m)
         /\ bc' = TrackObj(bc, connections, r.m.connections, ws)
         /\ last' = Op("leave", ws, r.room, "", r.user, r.returned)
    /\ UNCHANGED <<wsState, wsRoomId>>

\* websocket_endpoint lines 201-209: json.loads raises JSONDecodeError; an
\* error envelope is sent to the websocket itself and the while loop goes on
\* (sent_to: the connections sent to; state: where the endpoint task is then)
DecodeErrorLeavingLoop(ws) == [sent_to |-> {ws}, state |-> "done"]
DecodeError(ws) == [sent_to |-> {ws}, state |-> "open"]

\* a text message of ws that is not JSON is received
MalformedMessage(ws) ==
    /\ wsState[ws] = "open"
    /\ ~Busy(ws)
    /\ LET r == DecodeError(ws) IN
         /\ wsState' = [wsState EXCEPT ![ws] = r.state]
         /\ last' = [op |-> "decode_error", ws |-> ws, sent_to |-> r.sent_to]
    /\ bc' = TrackObj(bc, connections, connections, None)
    /\ UNCHANGED <<rooms, connections, user_rooms, ws_users, color_index,
                   next_room_id, next_user_id, wsRoomId>>

\* the client's transport closes
TransportClose(ws) ==
    /\ wsState[ws] = "open"
    /\ wsState' = [wsState EXCEPT ![ws] = "closed"]
    /\ last' = Op("close", None, None, "", None, FALSE)
    /\ bc' = TrackObj(bc, connections, connections, None)
    /\ UNCHANGED <<rooms, connections, user_rooms, ws_users, color_index,
                   next_room_id, next_user_id, wsRoomId>>

\* websocket_endpoint: receive_text raises WebSocketDisconnect, which the
\* inner "except Exception" catches; receive_bytes then raises as well and
\* the loop is left by "break", past both handlers that call handle_leave.
EndpointDisconnect(ws) ==
    /\ wsState[ws] = "closed"
    /\ ~Busy(ws)
    /\ wsState' = [wsState EXCEPT ![ws] = "done"]
    /\ last' = Op("disconnect", None, None, "", None, FALSE)
    /\ bc' = TrackObj(bc, connections, connections, None)
    /\ UNCHANGED <<rooms, connections, user_rooms, ws_users, color_index,
                   next_room_id, next_user_id, wsRoomId>>

\* the handler of a message of ws calls broadcast_to_room(room_id, message, exclude_ws);
\* the model follows one broadcast_to_room call at a time
BroadcastStart(ws, exclude_ws) ==
    /\ wsState[ws] = "open"
    /\ bc.status # "sending"
    /\ LET conns == get_connections(Manager, wsRoomId[ws])
           b == [IdleBroadcast EXCEPT !.status = "sending", !.room = wsRoomId[ws],
                    !.exclude = exclude_ws, !.by = ws, !.start = conns,
                    !.obj = conns]
       IN Proceed(b)
    /\ last' = Op("broadcast", None, None, "", None, FALSE)
    /\ UNCHANGED <<wsState, wsRoomId>>

\* the awaited send_json returns, or raises when the target's transport is
\* closed, and the sweep goes on
BroadcastResume ==
    /\ bc.status = "sending"
    /\ LET failed == wsState[bc.target] # "open"
           b == [bc EXCEPT !.disconnected = IF failed THEN @ \cup {bc.target} ELSE @]
       IN Proceed(b)
    /\ last' = Op("send", None, None, "", None, FALSE)
    /\ UNCHANGED <<wsState, wsRoomId>>

Init ==
    /\ rooms = <<>>
    /\ connections = <<>>
    /\ user_rooms = <<>>
    /\ ws_users = <<>>
    /\ color_index = 0
    /\ next_room_id = 1
    /\ next_user_id = 1
    /\ wsState = [w \in WS |-> "unconnected"]
    /\ wsRoomId = [w \in WS |-> None]
    /\ bc = IdleBroadcast
    /\ last = Op("init", None, None, "", None, FALSE)

Next ==
    \/ \E n \in HostNames, k \in MinMaxUsers..MaxCapacity, p \in BOOLEAN : CreateRoom(n, k, p)
    \/ \E w \in WS, r \in RoomIds : Connect(w, r)
    \/ \E w \in WS, n \in Names : Join(w, n)
    \/ \E w \in WS : Leave(w)
    \/ \E w \in WS : MalformedMessage(w)
    \/ \E w \in WS : TransportClose(w)
    \/ \E w \in WS : EndpointDisconnect(w)
    \/ \E w \in WS : \E x \in {None, w} : BroadcastStart(w, x)
    \/ BroadcastResume

Spec == Init /\ [][Next]_vars

\* ---- the RoomManager alone, under every sequence of calls of its methods,
\* ---- with up to MaxCallRooms rooms
\* (all three are synchronous: a call runs to its return without suspension)

CallCreateRoom(host_name, max_users, is_public) ==
    /\ next_room_id <= MaxCallRooms
    /\ next_user_id <= MaxAlloc
    /\ SetManager(create_room(Manager, host_name, max_users, is_public))
    /\ last' = Op("create", None, next_room_id, "", next_user_id, TRUE)
    /\ UNCHANGED <<wsState, wsRoomId, bc>>

CallJoinRoom(room_id, user_name, websocket) ==
    /\ LET r == join_room(Manager, room_id, user_name, websocket) IN
         /\ r.m.next_user_id <= MaxAlloc + 1
         /\ SetManager(r.m)
         /\ last' = Op("join", websocket, room_id, user_name, r.ret, r.ret # None)
    /\ UNCHANGED <<wsState, wsRoomId, bc>>

CallLeaveRoom(websocket) ==
    /\ LET r == leave_room(Manager, websocket) IN
         /\ SetManager(r.m)
         /\ last' = Op("leave", websocket, r.room, "", r.user, r.returned)
    /\ UNCHANGED <<wsState, wsRoomId, bc>>

\* broadcast_to_room run from its first line to its return with no other
\* call in between: the sends to the connections in failed raise, and the
\* cleanup loop calls leave_room on each of them
CallBroadcastToRoom(room_id, failed) ==
    /\ failed \subseteq get_connections(Manager, room_id)
    /\ \E m \in LeaveAll(Manager, failed) : SetManager(m)
    /\ last' = [op |-> "broadcast_to_room", room |-> room_id, failed |-> failed]
    /\ UNCHANGED <<wsState, wsRoomId, bc>>

CallGetPublicRooms ==
    /\ last' = [op |-> "get_public_rooms", result |-> get_public_rooms(Manager)]
    /\ UNCHANGED <<rooms, connections, user_rooms, ws_users, color_index,
                   next_room_id, next_user_id, wsState, wsRoomId, bc>>

NextCalls ==
    \/ \E n \in HostNames, k \in MinMaxUsers..MaxCapacity, p \in BOOLEAN :
          CallCreateRoom(n, k, p)
    \/ \E r \in CallRoomIds, n \in Names, w \in WS : CallJoinRoom(r, n, w)
    \/ \E w \in WS : CallLeaveRoom(w)
    \/ \E r \in CallRoomIds, F \in SUBSET WS : CallBroadcastToRoom(r, F)
    \/ CallGetPublicRooms

SpecCalls == Init /\ [][NextCalls]_vars

\* The same calls from a manager that is new or has made PaletteSize - 2
\* color allocations for rooms that are gone since (uuid4 ids never recur,
\* so the id counters of the model start anew)
InitColors ==
    /\ rooms = <<>>
    /\ connections = <<>>
    /\ user_rooms = <<>>
    /\ ws_users = <<>>
    /\ color_index \in {0, PaletteSize - 2}
    /\ next_room_id = 1
    /\ next_user_id = 1
    /\ wsState = [w \in WS |-> "unconnected"]
    /\ wsRoomId = [w \in WS |-> None]
    /\ bc = IdleBroadcast
    /\ last = Op("init", None, None, "", None, FALSE)

SpecColors == InitColors /\ [][NextCalls]_vars

\* ---- the REST endpoints of main.py and the remaining RoomManager calls ----

\* CreateRoomRequest.max_users: Field(ge=2, le=50)
ValidMaxUsersNoLowerBound(max_users) == max_users <= MaxMaxUsers
ValidMaxUsers(max_users) == max_users >= MinMaxUsers /\ max_users <= MaxMaxUsers

\* POST /rooms/create: the request is validated before the handler runs
\* (status 422 otherwise); the handler calls room_manager.create_room
rest_create_room(m, host_name, max_users, is_public) ==
    IF ValidMaxUsers(max_users)
    THEN [m |-> create_room(m, host_name, max_users, is_public), status |-> 200]
    ELSE [m |-> m, status |-> 422]

\* DELETE /rooms/{room_id} line 289: len(room.users) > 0
RoomHasUsersBeyondOne(room) == user_count(room) > 1
RoomHasUsers(room) == user_count(room) > 0

\* DELETE /rooms/{room_id}: the manager afterwards and the HTTP status
rest_delete_room(m, room_id) ==
    IF ~HasRoom(m, room_id) THEN [m |-> m, status |-> 404]
    ELSE IF RoomHasUsers(m.rooms[room_id]) THEN [m |-> m, status |-> 403]
    ELSE LET d == delete_room(m, room_id)
         IN [m |-> d.m, status |-> IF d.ret THEN 200 ELSE 500]

\* max_users values of create requests: below the range, in it, its upper
\* end and above it
RequestedMaxUsers ==
    {MinMaxUsers - 1} \cup (MinMaxUsers..MaxCapacity) \cup {MaxMaxUsers, MaxMaxUsers + 1}

RestCreateRoom(host_name, max_users, is_public) ==
    /\ LET r == rest_create_room(Manager, host_name, max_users, is_public) IN
         /\ r.status = 200 => next_room_id <= MaxRooms /\ next_user_id <= MaxAlloc
         /\ SetManager(r.m)
         /\ last' = [op |-> "rest_create", room |-> IF r.status = 200 THEN next_room_id ELSE None,
                     max_users |-> max_users, status |-> r.status]
    /\ UNCHANGED <<wsState, wsRoomId, bc>>

RestDeleteRoom(room_id) ==
    /\ LET r == rest_delete_room(Manager, room_id) IN
         /\ SetManager(r.m)
         /\ last' = [op |-> "rest_delete", room |-> room_id, status |-> r.status]
    /\ UNCHANGED <<wsState, wsRoomId, bc>>

CallDeleteRoom(room_id) ==
    /\ LET r == delete_room(Manager, room_id) IN
         /\ SetManager(r.m)
         /\ last' = [op |-> "delete_room", room |-> room_id, ret |-> r.ret]
    /\ UNCHANGED <<wsState, wsRoomId, bc>>

CallUpdateCode(room_id, code) ==
    /\ LET r == update_code(Manager, room_id, code) IN
         /\ SetManager(r.m)
         /\ last' = [op |-> "update_code", room |-> room_id, value |-> code, ret |-> r.ret]
    /\ UNCHANGED <<wsState, wsRoomId, bc>>

CallUpdateLanguage(room_id, language) ==
    /\ LET r == update_language(Manager, room_id, language) IN
         /\ SetManager(r.m)
         /\ last' = [op |-> "update_language", room |-> room_id, value |-> language,
                     ret |-> r.ret]
    /\ UNCHANGED <<wsState, wsRoomId, bc>>

NextRest ==
    \/ \E n \in HostNames, k \in RequestedMaxUsers, p \in BOOLEAN : RestCreateRoom(n, k, p)
    \/ \E r \in RoomIds : RestDeleteRoom(r)
    \/ \E r \in RoomIds : CallDeleteRoom(r)
    \/ \E r \in RoomIds, c \in Codes : CallUpdateCode(r, c)
    \/ \E r \in RoomIds, l \in Languages : CallUpdateLanguage(r, l)
    \/ \E r \in RoomIds, n \in Names, w \in WS : CallJoinRoom(r, n, w)
    \/ \E w \in WS : CallLeaveRoom(w)
    \/ \E r \in RoomIds, F \in SUBSET WS : CallBroadcastToRoom(r, F)

SpecRest == Init /\ [][NextRest]_vars

\* ---- the claims ----

\* the room a connection's user is a member of, as join_room's reconnect test sees it
MemberOf(w, r) ==
    /\ w \in DOMAIN ws_users
    /\ r \in DOMAIN rooms
    /\ ws_users[w] \in DOMAIN rooms[r].users

IsMember(w) == \E r \in DOMAIN rooms : MemberOf(w, r)

\* get_connections and get_room in the state after the step
ConnectionsAfter(r) == IF r \in DOMAIN connections' THEN connections'[r] ELSE {}
HasRoomAfter(r) == r \in DOMAIN rooms'

\* the names of the users of a room
NamesIn(r) == {rooms[r].users[u].name : u \in DOMAIN rooms[r].users}

\* C1: every room held in the registry has a user count of at least 0 and at
\* most its max_users, after every sequence of create_room, join_room and leave_room.
C1_UserCountWithinCapacity ==
    \A r \in DOMAIN rooms :
        /\ user_count(rooms[r]) >= 0
        /\ user_count(rooms[r]) <= rooms[r].max_users

\* C1 witness: a join_room has just filled a room to its capacity.
C1_Witness ==
    /\ last.op = "join"
    /\ last.returned
    /\ last.room \in DOMAIN rooms
    /\ user_count(rooms[last.room]) = rooms[last.room].max_users

\* C2: a room is in the registry if and only if its user mapping is non-empty;
\* the leave_room that removes the last user has deleted the room when it
\* returns, and get_room of that id is then absent.
C2_RoomPresentIffNonEmpty ==
    /\ [](\A r \in RoomIds : HasRoom(Manager, r) => DOMAIN rooms[r].users # {})
    /\ [][(/\ last'.op = "leave"
            /\ last'.returned
            /\ DOMAIN rooms[last'.room].users \subseteq {last'.ret})
           => ~HasRoomAfter(last'.room)]_vars

\* C2 witness: a leave_room removed the last user and the room is gone.
C2_Witness ==
    /\ last.op = "leave"
    /\ last.returned
    /\ last.ret # None
    /\ ~HasRoom(Manager, last.room)

\* C3 (as claimed): a join_room of a connection whose user is a member of the
\* room, and a join_room under the host's name, succeed and return the
\* existing user also when the room is at max_users.
C3_ReconnectAndHostAtCapacity ==
    [][(/\ last'.op = "join"
        /\ last'.room \in DOMAIN rooms
        /\ user_count(rooms[last'.room]) = rooms[last'.room].max_users)
       =>
       /\ MemberOf(last'.ws, last'.room) => last'.ret = ws_users[last'.ws]
       /\ (~MemberOf(last'.ws, last'.room)
             /\ HostUserId(rooms[last'.room], last'.name) # None)
            => last'.ret = HostUserId(rooms[last'.room], last'.name)]_vars

\* C4: join_room returns absent when the room does not exist, and when the
\* room is at max_users and the name is new on a connection without
\* association; rooms, connections, ws_users, user_rooms and color_index are
\* then left as they were.
C4_RejectedJoinChangesNothing ==
    [][(/\ last'.op = "join"
        /\ \/ last'.room \notin DOMAIN rooms
           \/ /\ last'.room \in DOMAIN rooms
              /\ user_count(rooms[last'.room]) = rooms[last'.room].max_users
              /\ last'.name \notin NamesIn(last'.room)
              /\ last'.ws \notin DOMAIN ws_users)
       =>
       /\ last'.ret = None
       /\ ~last'.returned
       /\ UNCHANGED <<rooms, connections, user_rooms, ws_users, color_index>>]_vars

\* C4 witness: a join_room under a new name on an unassociated connection was
\* rejected by a full room.
C4_Witness ==
    /\ last.op = "join"
    /\ ~last.returned
    /\ last.room \in DOMAIN rooms
    /\ user_count(rooms[last.room]) = rooms[last.room].max_users
    /\ last.name \notin NamesIn(last.room)
    /\ last.ws \notin DOMAIN ws_users

\* C5 (as claimed): once the endpoint has seen a connection's transport
\* close, leave cleanup has run for it: its user is no room member any more.
C5_ClosedConnectionHasLeft ==
    \A w \in WS : wsState[w] = "done" => ~IsMember(w)

\* C6 (as claimed): join_room under the host's name from a connection that is
\* not associated with a member of the room returns the host user, attaches
\* the connection to it and leaves the room's users as they were.
C6_HostRejoinAttaches ==
    [][(/\ last'.op = "join"
        /\ last'.room \in DOMAIN rooms
        /\ ~MemberOf(last'.ws, last'.room)
        /\ HostUserId(rooms[last'.room], last'.name) # None)
       =>
       /\ last'.ret = HostUserId(rooms[last'.room], last'.name)
       /\ last'.ws \in DOMAIN ws_users'
       /\ ws_users'[last'.ws] = last'.ret
       /\ last'.ws \in ConnectionsAfter(last'.room)
       /\ rooms'[last'.room].users = rooms[last'.room].users]_vars

\* C7 (as claimed): leave_room on a connection that has an associated user
\* returns (room id, user) with a user that is not absent, and the user, the
\* connection and the connection's association are removed.
C7_LeaveRemovesAssociatedUser ==
    [][(/\ last'.op = "leave"
        /\ last'.ws \in DOMAIN ws_users)
       =>
       /\ last'.returned
       /\ last'.ret = ws_users[last'.ws]
       /\ last'.ws \notin DOMAIN ws_users'
       /\ last'.ws \notin ConnectionsAfter(last'.room)
       /\ last'.room \in DOMAIN rooms' =>
             /\ last'.ret \notin DOMAIN rooms'[last'.room].users
             /\ DOMAIN rooms'[last'.room].users # {}]_vars

\* C8: leave_room on a connection without associated user returns absent and
\* changes no state; a leave_room directly after a successful leave_room of
\* the same connection is such a call.
C8_LeaveIdempotent ==
    [][(/\ last'.op = "leave"
        /\ \/ last'.ws \notin DOMAIN ws_users
           \/ last.op = "leave" /\ last.returned /\ last.ws = last'.ws)
       =>
       /\ ~last'.returned
       /\ UNCHANGED <<rooms, connections, user_rooms, ws_users, color_index>>]_vars

\* C8 witness: a leave_room on a connection without associated user has
\* returned absent while a room with other connections exists.
C8_Witness ==
    /\ last.op = "leave"
    /\ ~last.returned
    /\ last.ws \notin DOMAIN ws_users
    /\ \E r \in DOMAIN rooms :
          /\ last.ws \notin get_connections(Manager, r)
          /\ get_connections(Manager, r) # {}

\* C9 (as claimed): a broadcast_to_room has, when it ends, attempted one send
\* to every connection of the room's connection set but exclude_ws, and none
\* to exclude_ws.
C9_EveryConnectionAttempted ==
    bc.status \in {"returned", "raised"} =>
        bc.attempted = bc.start \ {bc.exclude}

\* C10 (as claimed): when broadcast_to_room returns, no connection whose send
\* failed is in the room's connection set any more.
C10_FailedConnectionsPruned ==
    bc.status = "returned" =>
        bc.disconnected \cap get_connections(Manager, bc.room) = {}

\* C11 (as claimed): when a broadcast_to_room in which sends failed returns,
\* every connection whose send failed was passed to leave and a leave
\* notification for its user was broadcast to the remaining connections.
C11_FailedConnectionsLeaveNotified ==
    bc.status = "returned" => bc.disconnected \subseteq LeaveNotified(bc)

\* C12 (as claimed): the set a suspended broadcast_to_room iterates over is a
\* snapshot: join_room and leave_room calls on the room do not change it and
\* do not make the sweep fail.
C12_BroadcastIteratesSnapshot ==
    /\ bc.status = "sending" => bc.obj = bc.start
    /\ bc.status # "raised"

\* C13: the room create_room returns is stored in the registry under its id,
\* has exactly one user, that user has is_host = true and its id is the
\* room's host_id, and user_count is 1.
C13_CreatedRoomHasOneHost ==
    (last.op = "create" /\ last.returned) =>
        /\ last.room \in DOMAIN rooms
        /\ DOMAIN rooms[last.room].users = {last.ret}
        /\ rooms[last.room].users[last.ret].is_host
        /\ rooms[last.room].host_id = last.ret
        /\ user_count(rooms[last.room]) = 1

\* C13 witness: create_room has returned a second room while the first one,
\* with two users, is in the registry.
C13_Witness ==
    /\ last.op = "create"
    /\ last.returned
    /\ last.room \in DOMAIN rooms
    /\ \E r \in DOMAIN rooms : r # last.room /\ user_count(rooms[r]) = 2

\* C14 (as claimed): every room of the registry has exactly one user with
\* is_host = true, after every sequence of joins and leaves.
C14_ExactlyOneHost ==
    \A r \in DOMAIN rooms :
        Cardinality({u \in DOMAIN rooms[r].users : rooms[r].users[u].is_host}) = 1

\* C15 (as claimed): after every sequence of join_room and leave_room calls a
\* connection is in at most one room's connection set and is associated
\* with at most one user id.
C15_ConnectionInOneRoom ==
    \A w \in WS :
        /\ Cardinality({r \in DOMAIN connections : w \in connections[r]}) <= 1
        /\ Cardinality({u \in 1..(MaxAlloc + 1) :
                          w \in DOMAIN ws_users /\ ws_users[w] = u}) <= 1

\* C16: delete_room on a room of the registry removes the room, the
\* user-to-room record of each of its users and its connection set, and
\* returns true; on an absent room it returns false and changes nothing, so
\* a second delete_room of the same id is a no-op returning false.
C16_DeleteRoomSeversAndIsIdempotent ==
    [][last'.op = "delete_room" =>
        /\ last'.room \in DOMAIN rooms =>
              /\ last'.ret
              /\ last'.room \notin DOMAIN rooms'
              /\ \A u \in DOMAIN rooms[last'.room].users : u \notin DOMAIN user_rooms'
              /\ last'.room \notin DOMAIN connections'
        /\ last'.room \notin DOMAIN rooms =>
              /\ ~last'.ret
              /\ UNCHANGED <<rooms, connections, user_rooms, ws_users, color_index>>
        /\ (last.op = "delete_room" /\ last.room = last'.room) =>
              /\ ~last'.ret
              /\ UNCHANGED <<rooms, connections, user_rooms, ws_users, color_index>>]_vars

\* C16 witness: delete_room has removed a room that had two users, both with
\* a user-to-room record, and a connection set.
C16_Witness ==
    /\ last.op = "delete_room"
    /\ last.ret
    /\ rooms = <<>>
    /\ connections = <<>>
    /\ user_rooms = <<>>
    /\ Cardinality(DOMAIN ws_users) = 2

\* C17: update_code (update_language) on a room of the registry replaces the
\* room's code (language) by the value given and returns true, leaving the
\* users and the connections as they were; on an absent room it returns
\* false and changes nothing; no other operation changes the code or the
\* language of a room, so they are the values of the last update applied.
C17_UpdateIsLastWriterWins ==
    [][/\ last'.op = "update_code" =>
            IF last'.room \in DOMAIN rooms
            THEN /\ last'.ret
                 /\ rooms' = [rooms EXCEPT ![last'.room].code = last'.value]
                 /\ connections' = connections
            ELSE /\ ~last'.ret
                 /\ UNCHANGED <<rooms, connections, user_rooms, ws_users, color_index>>
       /\ last'.op = "update_language" =>
            IF last'.room \in DOMAIN rooms
            THEN /\ last'.ret
                 /\ rooms' = [rooms EXCEPT ![last'.room].language = last'.value]
                 /\ connections' = connections
            ELSE /\ ~last'.ret
                 /\ UNCHANGED <<rooms, connections, user_rooms, ws_users, color_index>>
       /\ \A r \in (DOMAIN rooms) \cap (DOMAIN rooms') :
            /\ last'.op # "update_code" => rooms'[r].code = rooms[r].code
            /\ last'.op # "update_language" => rooms'[r].language = rooms[r].language]_vars

\* C17 witness: an update_code has set the code of a room with two users and
\* a connection, whose language an earlier update_language had set.
C17_Witness ==
    /\ last.op = "update_code"
    /\ last.ret
    /\ last.value = "y"
    /\ rooms[last.room].code = "y"
    /\ rooms[last.room].language = "Go"
    /\ user_count(rooms[last.room]) = 2
    /\ get_connections(Manager, last.room) # {}

C20_MaxUsersValidated ==
    /\ [](\A r \in DOMAIN rooms :
             rooms[r].max_users >= MinMaxUsers /\ rooms[r].max_users <= MaxMaxUsers)
    /\ [][(/\ last'.op = "rest_create"
            /\ (last'.max_users < MinMaxUsers \/ last'.max_users > MaxMaxUsers))
           =>
           /\ last'.status = 422
           /\ UNCHANGED <<rooms, connections, user_rooms, ws_users, color_index>>]_vars

\* C20 witness: a create-room request with max_users = 1 was rejected while
\* a room is in the registry.
C20_Witness ==
    /\ last.op = "rest_create"
    /\ last.max_users = MinMaxUsers - 1
    /\ last.status = 422
    /\ rooms # <<>>

\* C19: a message that cannot be decoded as JSON produces one error envelope,
\* sent to the sending connection only; no room state is changed, no
\* broadcast is started or advanced, and the connection's receive loop goes
\* on: the connection is open for its later messages.
C19_DecodeErrorToSenderOnly ==
    [][last'.op = "decode_error" =>
        /\ last'.sent_to = {last'.ws}
        /\ UNCHANGED <<rooms, connections, user_rooms, ws_users, color_index>>
        /\ bc'.status \in {"idle", "sending"}
        /\ bc'.status = "sending" => bc' = bc
        /\ wsState'[last'.ws] = "open"]_vars

\* C19 witness: a member of a room has sent a malformed message while a
\* broadcast to the room is suspended at a send, and its endpoint is open.
C19_Witness ==
    /\ last.op = "decode_error"
    /\ IsMember(last.ws)
    /\ wsState[last.ws] = "open"
    /\ bc.status = "sending"
    /\ bc.target = last.ws

\* C21: get_public_rooms returns exactly one snapshot for each room of the
\* registry with is_public = true and none for a private room, and the
\* user_count of each snapshot is the size of that room's user mapping.
C21_PublicRoomsListedOnce ==
    last.op = "get_public_rooms" =>
        /\ \A r \in DOMAIN rooms :
              Cardinality({i \in DOMAIN last.result : last.result[i].id = r})
                 = IF rooms[r].is_public THEN 1 ELSE 0
        /\ \A i \in DOMAIN last.result :
              /\ last.result[i].id \in DOMAIN rooms
              /\ last.result[i].user_count
                    = Cardinality(DOMAIN rooms[last.result[i].id].users)

\* C21 witness: get_public_rooms has returned the one public room, with two
\* users, of a registry that also holds a private room.
C21_Witness ==
    /\ last.op = "get_public_rooms"
    /\ Len(last.result) = 1
    /\ last.result[1].user_count = 2
    /\ \E r \in DOMAIN rooms : ~rooms[r].is_public

\* C22 (as claimed): once a connection has left, no later message of it takes
\* effect: a join_room on it right after its leave_room returns absent and
\* does not attach it again.
C22_DetachedIsTerminal ==
    [][(/\ last.op = "leave"
        /\ last.returned
        /\ last'.op = "join"
        /\ last'.ws = last.ws)
       =>
       /\ last'.ret = None
       /\ last'.ws \notin DOMAIN ws_users'
       /\ last'.ws \notin ConnectionsAfter(last'.room)]_vars

\* a call that targets the room last'.room has left every other room's
\* user mapping, code, language and connection set as they were
OtherRoomsUnchanged ==
    \A r \in DOMAIN rooms :
        r # last'.room =>
            /\ r \in DOMAIN rooms'
            /\ rooms'[r] = rooms[r]
            /\ ConnectionsAfter(r) = get_connections(Manager, r)

\* a broadcast to the room last'.room has removed no user of another room
OtherRoomsKeepUsers ==
    \A r \in DOMAIN rooms :
        r # last'.room =>
            /\ r \in DOMAIN rooms'
            /\ DOMAIN rooms'[r].users = DOMAIN rooms[r].users

\* C23 (as claimed): a join, leave, code update, language update or delete
\* that targets one room leaves every other room's user mapping, code,
\* language and connection set unchanged, and a send failure during a
\* broadcast to one room removes no user from any other room.
C23_OtherRoomsUntouched ==
    [][/\ last'.op \in {"join", "leave", "update_code", "update_language",
                         "delete_room"} => OtherRoomsUnchanged
       /\ last'.op = "broadcast_to_room" => OtherRoomsKeepUsers]_vars

\* C24: colors are allocated round-robin from the 12-entry palette by one
\* counter shared by all rooms: an allocation returns palette entry
\* counter mod 12; the counter advances by one on each create_room and each
\* join of a new participant, and not on a reconnect, a host re-join, a
\* failed join or any other call.
C24_ColorsRoundRobin ==
    [][/\ (last'.op = "create" /\ last'.returned) =>
            /\ rooms'[last'.room].users[last'.ret].color = color_index % PaletteSize
            /\ color_index' = color_index + 1
       /\ last'.op = "join" =>
            IF last'.ret # None /\ last'.ret \notin DOMAIN rooms[last'.room].users
            THEN /\ rooms'[last'.room].users[last'.ret].color = color_index % PaletteSize
                 /\ color_index' = color_index + 1
            ELSE color_index' = color_index
       /\ last'.op \notin {"create", "join"} => color_index' = color_index]_vars

\* C24 witness: the join of a new participant has been given the first
\* palette entry again, the counter having passed the palette's size.
C24_Witness ==
    /\ last.op = "join"
    /\ last.returned
    /\ color_index = PaletteSize + 1
    /\ last.room \in DOMAIN rooms
    /\ last.ret \in DOMAIN rooms[last.room].users
    /\ rooms[last.room].users[last.ret].color = 0

\* C25 (as claimed): each connection in a room's connection set is associated
\* with a user id, and that user is in the room's user mapping.
C25_ConnectionsBelongToMembers ==
    \A r \in DOMAIN connections :
        \A w \in connections[r] :
            /\ w \in DOMAIN ws_users
            /\ r \in DOMAIN rooms
            /\ ws_users[w] \in DOMAIN rooms[r].users

\* C26 (as claimed): a leave_room on one of several connections attached to
\* the same user of a room does not remove the user, and the room stays in
\* the registry, while another of them is attached.
C26_UserStaysWhileAttached ==
    [][(/\ last'.op = "leave"
        /\ last'.returned
        /\ \E w \in get_connections(Manager, last'.room) \ {last'.ws} :
               /\ w \in DOMAIN ws_users
               /\ ws_users[w] = ws_users[last'.ws])
       =>
       /\ last'.room \in DOMAIN rooms'
       /\ ws_users[last'.ws] \in DOMAIN rooms'[last'.room].users]_vars

====
